---- MODULE Spec2Model ----
(***************************************************************************)
(* The request pipeline of SubtextClient (src/src/index.ts): construction, *)
(* the three resource operations thread/message/run, makeRequest, the      *)
(* retry interceptor with its exponential backoff, handleError's mapping   *)
(* of transport outcomes onto the exception classes of                     *)
(* src/src/exceptions.ts, and close().                                     *)
(*                                                                         *)
(* JavaScript values are modelled as follows.  An optional value           *)
(* (undefined or v) is the set {} or {v}.  A decoded response body is a    *)
(* record [kind, data, error]: kind "null" is the JSON value null, kind    *)
(* "string" the empty string axios yields for an empty body, kind "object" *)
(* a JSON object whose `data` and `error` members are the record's fields  *)
(* (Absent when the object has no such member).                            *)
(***************************************************************************)
EXTENDS Integers, Sequences, FiniteSets, TLC

\* Largest maxRetries option a client is constructed with.
MaxRetriesOpt == 2

\* Attempts after which a call still retrying is stopped where it stands.
MaxAttempts == 6

\* Number of toDict() calls made on one value object.
MaxDicts == 2

\* Number of call slots (promises the caller may hold).
NumCalls == 2

Calls == 1..NumCalls

Absent == "<absent>"

----------------------------------------------------------------------------
(* The environment: what the network can answer to one attempt.            *)

retryStatusCodes == {429, 500, 502, 503, 504}

\* Statuses the server answers with: success, the specially mapped ones,
\* the retried ones and representatives of every other class.
Statuses == {200, 201, 304, 400, 401, 403, 404, 429, 500, 501, 502, 503, 504, 505}

\* axios' default validateStatus: a response resolves iff its status is 2xx.
validateStatus(status) == status >= 200 /\ status < 300

Payloads == {"d1", "d2"}

NullBody == [kind |-> "null", data |-> Absent, error |-> Absent]

EmptyBody == [kind |-> "string", data |-> Absent, error |-> Absent]

ObjectBody(d, e) == [kind |-> "object", data |-> d, error |-> e]

Bodies ==
    {NullBody, EmptyBody, ObjectBody(Absent, Absent), ObjectBody(Absent, "")}
        \cup {ObjectBody(d, Absent) : d \in Payloads}
        \cup {ObjectBody(Absent, e) : e \in {"e1"}}

\* error.code of an attempt that ended without a response.
NetworkCodes == {"ECONNABORTED", "ETIMEDOUT", "ECONNREFUSED", "ENOTFOUND", "ERR_NETWORK"}

\* The status logged for an attempt that got no response.
NoResponse == 0

\* One attempt's outcome as axios reports it: `response` is {} when no
\* response was received, `code` is the AxiosError code.
HttpOutcome(status, body) ==
    [code |-> IF validateStatus(status) THEN "OK"
              ELSE IF status >= 500 THEN "ERR_BAD_RESPONSE" ELSE "ERR_BAD_REQUEST",
     response |-> {[status |-> status, data |-> body]}]

NetworkOutcome(code) == [code |-> code, response |-> {}]

Outcomes ==
    {HttpOutcome(s, b) : s \in Statuses, b \in Bodies}
        \cup {NetworkOutcome(k) : k \in NetworkCodes}

IsSuccess(out) == \E r \in out.response : validateStatus(r.status)

StatusOf(out) == IF out.response = {} THEN NoResponse
                 ELSE (CHOOSE r \in out.response : TRUE).status

----------------------------------------------------------------------------
(* Construction.                                                           *)

\* A URL is the sequence of its pieces, each "/" a piece of its own.
DefaultBaseUrl == <<"https:", "/", "/", "app.trysubtext.com">>

DefaultTimeout == 30000

DefaultMaxRetries == 3

\* The options a client is constructed with, every member optional:
\* here a usable apiKey and any maxRetries.
OptionSets ==
    {[apiKey |-> {"key"}, baseUrl |-> {}, timeout |-> {}, maxRetries |-> m] :
        m \in {{}} \cup {{n} : n \in 0..MaxRetriesOpt}}

CustomHost == <<"https:", "/", "/", "custom.api.com">>

\* Base URLs a caller passes: the empty string, a host, the host with one
\* and with two trailing slashes, and a path that ends in a slash.
BaseUrls ==
    {<<>>, CustomHost, CustomHost \o <<"/">>, CustomHost \o <<"/", "/">>,
     CustomHost \o <<"/", "v1", "/">>}

\* Every shape of options: apiKey missing, empty or set, and each other
\* option missing, falsy or set.
AllOptionSets ==
    {[apiKey |-> k, baseUrl |-> b, timeout |-> t, maxRetries |-> m] :
        k \in {{}, {""}, {"key"}},
        b \in {{}} \cup {{u} : u \in BaseUrls},
        t \in {{}, {0}, {5000}},
        m \in {{}} \cup {{n} : n \in 0..MaxRetriesOpt}}

\* JavaScript's `x || d` for an optional number: d when x is undefined or 0.
OrDefault(x, d) == IF x = {} \/ x = {0} THEN d ELSE CHOOSE v \in x : TRUE

\* `options.baseUrl || default`: the default when undefined or empty.
UrlOrDefault(x, d) == IF x = {} \/ x = {<<>>} THEN d ELSE CHOOSE v \in x : TRUE

\* Faulty variant: every "/" at the end is removed.
StripEveryTrailingSlash(url) ==
    LET kept == {n \in 0..Len(url) : \A i \in (n + 1)..Len(url) : url[i] = "/"}
    IN  SubSeq(url, 1, CHOOSE n \in kept : \A m \in kept : n <= m)

\* `.replace(/\/$/, '')`: one "/" at the very end is removed.
StripTrailingSlash(url) ==
    IF Len(url) > 0 /\ url[Len(url)] = "/" THEN SubSeq(url, 1, Len(url) - 1) ELSE url

\* Faulty variant: only a missing apiKey is refused, an empty one passes.
ConstructorErrorOnlyMissing(options) ==
    IF options.apiKey = {}
    THEN {[name |-> "Error", taxonomy |-> FALSE, message |-> "API key is required",
           statusCode |-> {}, responseData |-> {}]}
    ELSE {}

\* `if (!options.apiKey) throw new Error('API key is required')`: the
\* error the constructor throws, {} when it returns.
ConstructorError(options) ==
    IF options.apiKey \in {{}, {""}}
    THEN {[name |-> "Error", taxonomy |-> FALSE, message |-> "API key is required",
           statusCode |-> {}, responseData |-> {}]}
    ELSE {}

\* The headers given to axios.create.
DefaultHeaders(apiKey) ==
    ("Content-Type" :> "application/json")
        @@ ("x-api-key" :> apiKey)
        @@ ("User-Agent" :> "subtext-typescript/0.1.0")

\* The constructor: the four private fields and the axios instance
\* (httpClient, made by axios.create) with the retry interceptor
\* registered on its response chain.
Construct(options) ==
    LET apiKey == CHOOSE k \in options.apiKey : TRUE
        baseUrl == StripTrailingSlash(UrlOrDefault(options.baseUrl, DefaultBaseUrl))
        timeout == OrDefault(options.timeout, DefaultTimeout)
    IN  [apiKey |-> apiKey,
         baseUrl |-> baseUrl,
         timeout |-> timeout,
         maxRetries |-> OrDefault(options.maxRetries, DefaultMaxRetries),
         httpClient |-> {[baseURL |-> baseUrl, timeout |-> timeout,
                          headers |-> DefaultHeaders(apiKey)]},
         requestInterceptors |-> {},
         responseInterceptors |-> {"retry"}]

\* No client object: the constructor has not run, or it threw.
NoClient ==
    [apiKey |-> Absent, baseUrl |-> <<>>, timeout |-> 0, maxRetries |-> 0,
     httpClient |-> {}, requestInterceptors |-> {}, responseInterceptors |-> {}]

----------------------------------------------------------------------------
(* The exception classes.                                                  *)

SubtextAPIError(message, statusCode, responseData) ==
    [name |-> "SubtextAPIError", taxonomy |-> TRUE, message |-> message,
     statusCode |-> statusCode, responseData |-> responseData]

SubtextAuthenticationError ==
    [SubtextAPIError("Authentication failed. Please check your API key.", {401}, {})
        EXCEPT !.name = "SubtextAuthenticationError"]

SubtextValidationError(message, responseData) ==
    [SubtextAPIError(message, {400}, responseData)
        EXCEPT !.name = "SubtextValidationError"]

SubtextNotFoundError(message, responseData) ==
    [SubtextAPIError(message, {404}, responseData)
        EXCEPT !.name = "SubtextNotFoundError"]

SubtextServerError(message, statusCode, responseData) ==
    [SubtextAPIError(message, statusCode, responseData)
        EXCEPT !.name = "SubtextServerError"]

SubtextConnectionError(message) ==
    [SubtextAPIError(message, {}, {}) EXCEPT !.name = "SubtextConnectionError"]

SubtextTimeoutError(message) ==
    [SubtextAPIError(message, {}, {}) EXCEPT !.name = "SubtextTimeoutError"]

\* A plain Error / TypeError: not an instance of SubtextAPIError.
PlainError(name, message) ==
    [name |-> name, taxonomy |-> FALSE, message |-> message,
     statusCode |-> {}, responseData |-> {}]

----------------------------------------------------------------------------
(* handleError and parseErrorResponse.                                     *)

EmptyObject == ObjectBody(Absent, Absent)

\* Faulty variant: the body is taken as it is, without `|| {}`.
parseErrorResponseAsIs(response) == response.data

\* `response.data || {}`: null and the empty string are falsy.
parseErrorResponse(response) ==
    IF response.data.kind = "object" THEN response.data ELSE EmptyObject

\* `errorData.error || fallback`
ErrorOr(errorData, fallback) ==
    IF errorData.error \in {Absent, ""} THEN fallback ELSE errorData.error

\* error.message of an AxiosError that carries no response.
AxiosMessage(code) ==
    IF code = "ERR_NETWORK" THEN "Network Error" ELSE code

\* The error codes handleError reports as a timeout.
\* Faulty variant: ETIMEDOUT forgotten.
TimeoutCodesOnlyAborted == {"ECONNABORTED"}

TimeoutCodes == {"ECONNABORTED", "ETIMEDOUT"}

\* The error codes handleError reports as a failed connection by code.
ConnectionCodes == {"ECONNREFUSED", "ENOTFOUND"}

\* case 500 / 502 / 503 / 504 of handleError's switch.
\* Faulty variant: the status argument left to its default of 500.
ServerErrorDefaultStatus(status, errorData) ==
    SubtextServerError(ErrorOr(errorData, "Internal server error"), {500}, {errorData})

ServerErrorFor(status, errorData) ==
    SubtextServerError(ErrorOr(errorData, "Internal server error"), {status}, {errorData})

\* The default case of handleError's switch.
\* Faulty variant: the status argument dropped.
GenericErrorNoStatus(status, errorData) ==
    SubtextAPIError(ErrorOr(errorData, "HTTP " \o ToString(status)), {}, {errorData})

GenericErrorFor(status, errorData) ==
    SubtextAPIError(ErrorOr(errorData, "HTTP " \o ToString(status)), {status}, {errorData})

\* handleError's switch on the status of the response.
\* Faulty variant: no case for 401.
StatusErrorNo401(status, errorData) ==
    CASE status = 400 ->
            SubtextValidationError(ErrorOr(errorData, "Validation error"), {errorData})
      [] status = 404 ->
            SubtextNotFoundError(ErrorOr(errorData, "Resource not found"), {errorData})
      [] status \in {500, 502, 503, 504} -> ServerErrorFor(status, errorData)
      [] OTHER -> GenericErrorFor(status, errorData)

StatusError(status, errorData) ==
    CASE status = 401 -> SubtextAuthenticationError
      [] status = 400 ->
            SubtextValidationError(ErrorOr(errorData, "Validation error"), {errorData})
      [] status = 404 ->
            SubtextNotFoundError(ErrorOr(errorData, "Resource not found"), {errorData})
      [] status \in {500, 502, 503, 504} -> ServerErrorFor(status, errorData)
      [] OTHER -> GenericErrorFor(status, errorData)

\* handleError(error): the exception thrown for a rejected attempt, where
\* url is error.config.url.
handleError(error, url) ==
    IF error.code \in TimeoutCodes
    THEN SubtextTimeoutError("Request to " \o url \o " timed out")
    ELSE IF error.code \in ConnectionCodes
    THEN SubtextConnectionError("Failed to connect to " \o url)
    ELSE IF error.response = {}
    THEN SubtextConnectionError("Request failed: " \o AxiosMessage(error.code))
    ELSE LET response == CHOOSE r \in error.response : TRUE
         IN  StatusError(response.status, parseErrorResponse(response))

----------------------------------------------------------------------------
(* The retry interceptor.                                                  *)

\* `config.__retryCount || 0`
RetryCountOf(config) ==
    IF config.__retryCount = {} THEN 0 ELSE CHOOSE n \in config.__retryCount : TRUE

\* Faulty variant: the budget is never found spent.
ExhaustedNever(config, maxRetries) == FALSE

\* `config.__retryCount >= this.maxRetries`: false while the counter is
\* undefined (undefined >= n is false in JavaScript).
\* Faulty variants: `>` for `>=`, and the test made after the increment.
ExhaustedStrictlyGreater(config, maxRetries) ==
    config.__retryCount # {} /\ RetryCountOf(config) > maxRetries

ExhaustedAfterIncrement(config, maxRetries) ==
    RetryCountOf(config) + 1 >= maxRetries

Exhausted(config, maxRetries) ==
    config.__retryCount # {} /\ RetryCountOf(config) >= maxRetries

\* Faulty variant: counting a failure also marks the url of the config.
IncrementRetryCountMarksUrl(config) ==
    [config EXCEPT !.__retryCount = {RetryCountOf(config) + 1}, !.url = @ \o "?retry"]

\* `config.__retryCount = config.__retryCount || 0; config.__retryCount += 1`
IncrementRetryCount(config) ==
    [config EXCEPT !.__retryCount = {RetryCountOf(config) + 1}]

\* Faulty variant: one counter serves every request of the client.
CountFailureShared(configs, c) ==
    [k \in DOMAIN configs |-> IncrementRetryCount(configs[k])]

\* `const config = error.config`: the counter that grows is the one on the
\* config object of the request that failed, and no other.
CountFailure(configs, c) == [configs EXCEPT ![c] = IncrementRetryCount(@)]

\* Faulty variant: every 4xx and 5xx response is retried.
ShouldRetryEveryFailure(error) == \E r \in error.response : r.status >= 400

\* `error.response && retryStatusCodes.includes(error.response.status)`
\* Faulty variant: the status is not looked at.
ShouldRetryAnyResponse(error) == error.response # {}

ShouldRetry(error) ==
    \E r \in error.response : r.status \in retryStatusCodes

\* `Math.pow(2, config.__retryCount) * 1000`
\* Faulty variant: the exponent taken before the increment.
BackoffDelayBeforeIncrement(config) == (2 ^ (RetryCountOf(config) - 1)) * 1000

BackoffDelay(config) == (2 ^ RetryCountOf(config)) * 1000

----------------------------------------------------------------------------
(* The resource operations.                                                *)

Operations == {"thread", "message", "run"}

\* The strings a caller passes for each option: empty or not, with a
\* different non-empty value per option.
Ids == {"", "t1"}

MessageTexts == {"", "hello"}

MessageIds == {"", "m1"}

RunIds == {"", "r1"}

ResponseTexts == {"", "answer"}

\* The option objects a caller passes: every required string is empty or
\* not, thread's userId is optional.
OptionsOf(op) ==
    CASE op = "thread" ->
            {[threadId |-> t, userId |-> u] : t \in Ids, u \in {{}, {"u1"}}}
      [] op = "message" ->
            {[threadId |-> t, message |-> m, messageId |-> i] :
                t \in Ids, m \in MessageTexts, i \in MessageIds}
      [] op = "run" ->
            {[threadId |-> t, runId |-> r, response |-> p] :
                t \in Ids, r \in RunIds, p \in ResponseTexts}

\* The `if (!options.x) throw new Error('x is required')` checks, in
\* order: {} when all pass, else the message of the first that fails.
\* Faulty variant: message() does not check messageId.
ValidateNoMessageId(op, options) ==
    CASE op = "thread" ->
            IF options.threadId = "" THEN {"threadId is required"} ELSE {}
      [] op = "message" ->
            IF options.threadId = "" THEN {"threadId is required"}
            ELSE IF options.message = "" THEN {"message is required"}
            ELSE {}
      [] op = "run" ->
            IF options.threadId = "" THEN {"threadId is required"}
            ELSE IF options.runId = "" THEN {"runId is required"}
            ELSE IF options.response = "" THEN {"response is required"}
            ELSE {}

Validate(op, options) ==
    CASE op = "thread" ->
            IF options.threadId = "" THEN {"threadId is required"} ELSE {}
      [] op = "message" ->
            IF options.threadId = "" THEN {"threadId is required"}
            ELSE IF options.message = "" THEN {"message is required"}
            ELSE IF options.messageId = "" THEN {"messageId is required"}
            ELSE {}
      [] op = "run" ->
            IF options.threadId = "" THEN {"threadId is required"}
            ELSE IF options.runId = "" THEN {"runId is required"}
            ELSE IF options.response = "" THEN {"response is required"}
            ELSE {}

\* Faulty variant: message() sends the text and the id under each other's key.
RequestDataSwapped(op, options) ==
    CASE op = "thread" ->
            [thread_id |-> options.threadId, user_id |-> options.userId]
      [] op = "message" ->
            [thread_id |-> options.threadId, message |-> options.messageId,
             message_id |-> options.message]
      [] op = "run" ->
            [thread_id |-> options.threadId, run_id |-> options.runId,
             response |-> options.response]

RequestData(op, options) ==
    CASE op = "thread" ->
            [thread_id |-> options.threadId, user_id |-> options.userId]
      [] op = "message" ->
            [thread_id |-> options.threadId, message |-> options.message,
             message_id |-> options.messageId]
      [] op = "run" ->
            [thread_id |-> options.threadId, run_id |-> options.runId,
             response |-> options.response]

Endpoint(op) ==
    CASE op = "thread" -> "/api/threads"
      [] op = "message" -> "/api/messages"
      [] op = "run" -> "/api/runs"

ValueType(op) ==
    CASE op = "thread" -> "Thread"
      [] op = "message" -> "Message"
      [] op = "run" -> "Run"

\* The request config makeRequest hands to axios.
RequestConfig(op, options) ==
    [method |-> "POST", url |-> Endpoint(op), data |-> RequestData(op, options),
     __retryCount |-> {}]

NoConfig == [method |-> Absent, url |-> Absent, data |-> <<>>, __retryCount |-> {}]

\* A settled promise.
Fulfilled(value) == [state |-> "fulfilled", value |-> {value}, error |-> {}]

Rejected(error) == [state |-> "rejected", value |-> {}, error |-> {error}]

\* new Thread(data) / new Message(data) / new Run(data)
ValueObject(op, data) == [type |-> ValueType(op), _data |-> data]

\* Faulty variant: the body's `data` is wrapped without being looked at.
UnwrapUnchecked(op, responseData) ==
    IF responseData.kind = "null"
    THEN Rejected(PlainError("TypeError", "Cannot read properties of null (reading 'data')"))
    ELSE Fulfilled(ValueObject(op, responseData.data))

\* What the operation does with the body makeRequest returned:
\* `responseData.data` on null throws a TypeError, a falsy `data` is the
\* missing-data failure, anything else is wrapped.
Unwrap(op, responseData) ==
    IF responseData.kind = "null"
    THEN Rejected(PlainError("TypeError", "Cannot read properties of null (reading 'data')"))
    ELSE IF responseData.data = Absent
    THEN Rejected(SubtextAPIError("Invalid response format: missing \"data\" field", {200}, {}))
    ELSE Fulfilled(ValueObject(op, responseData.data))

\* Faulty variant: close() discards the transport with the interceptors.
ClientAfterCloseNoTransport(cl) ==
    [cl EXCEPT !.requestInterceptors = {}, !.responseInterceptors = {},
               !.httpClient = {}]

\* Faulty variant: close() drops the retry budget with the interceptors.
ClientAfterCloseNoRetries(cl) ==
    [cl EXCEPT !.requestInterceptors = {}, !.responseInterceptors = {},
               !.maxRetries = 0]

\* `interceptors.request.clear(); interceptors.response.clear()`: the
\* client as close() leaves it.
ClientAfterClose(cl) ==
    [cl EXCEPT !.requestInterceptors = {}, !.responseInterceptors = {}]

----------------------------------------------------------------------------
(* What a call puts on the network.                                        *)

\* Faulty variant: a resubmitted request goes out without the instance's
\* default headers.
RequestBareOnRetry(cl, config) ==
    LET http == CHOOSE h \in cl.httpClient : TRUE
    IN  [method |-> config.method, baseURL |-> http.baseURL, url |-> config.url,
         data |-> config.data,
         headers |-> IF config.__retryCount = {} THEN http.headers ELSE <<>>]

\* `this.httpClient(config)`: the request axios sends for a config, which
\* is the config over the defaults of the instance made by axios.create.
Request(cl, config) ==
    LET http == CHOOSE h \in cl.httpClient : TRUE
    IN  [method |-> config.method, baseURL |-> http.baseURL, url |-> config.url,
         data |-> config.data, headers |-> http.headers]

\* Faulty variant: the handlers registered at construction stay with
\* every later request.
InterceptorsAtConstruction(cl) == {"retry"}

\* The response handlers axios chains to a request: those registered on
\* the instance at the moment the request is dispatched.
InterceptorsAtSend(cl) == cl.responseInterceptors

\* Nothing issued by a call.
NoWire == [requests |-> {}, outstanding |-> 0, afterClose |-> FALSE]

\* An attempt is handed to the network: its request, one more unanswered
\* attempt, and whether close() had been invoked by then.
Issue(w, cl, config) ==
    [requests |-> w.requests \cup {Request(cl, config)},
     outstanding |-> w.outstanding + 1,
     afterClose |-> cl.responseInterceptors = {}]

\* The network answers an attempt, or gives it up.
Answer(w) == [w EXCEPT !.outstanding = @ - 1]

----------------------------------------------------------------------------
(* The value objects Thread, Message and Run.                              *)

\* A payload member the server may leave out: no key when x is {}.
Member(k, x) == IF x = {} THEN <<>> ELSE k :> (CHOOSE v \in x : TRUE)

\* The `data` payloads of the server, as mappings from wire keys: a
\* thread's user_id is optional, and the server may add a key the
\* interfaces do not declare.
WirePayloads(op) ==
    CASE op = "thread" ->
            {[id |-> i, thread_id |-> t, created_at |-> "2024-01-01", modified_at |-> m]
                @@ Member("user_id", u) @@ Member("tenant", x) :
                i \in {"1", "2"}, t \in {"t1", "t2"}, m \in {"2024-01-01", "2024-01-02"},
                u \in {{}, {"u1"}}, x \in {{}, {"acme"}}}
      [] op = "message" ->
            {[id |-> i, thread_id |-> t, message |-> m, message_id |-> k,
              created_at |-> "2024-01-01"] :
                i \in {"1", "2"}, t \in {"t1", "t2"}, m \in {"hello", "bye"},
                k \in {"m1", "m2"}}
      [] op = "run" ->
            {[run_id |-> r, thread_id |-> t, response |-> a, created_at |-> "2024-01-01"] :
                r \in {"r1", "r2"}, t \in {"t1", "t2"}, a \in {"answer", "other"}}

\* The getters of each class.
Accessors(type) ==
    CASE type = "Thread" -> {"id", "threadId", "userId", "createdAt", "modifiedAt"}
      [] type = "Message" -> {"id", "threadId", "message", "messageId", "createdAt"}
      [] type = "Run" -> {"runId", "threadId", "response", "createdAt"}

\* The member of _data a getter returns.
WireField(accessor) ==
    CASE accessor = "id" -> "id"
      [] accessor = "threadId" -> "thread_id"
      [] accessor = "userId" -> "user_id"
      [] accessor = "createdAt" -> "created_at"
      [] accessor = "modifiedAt" -> "modified_at"
      [] accessor = "message" -> "message"
      [] accessor = "messageId" -> "message_id"
      [] accessor = "runId" -> "run_id"
      [] accessor = "response" -> "response"

\* `get x() { return this._data.field }`: {} when _data has no such member.
Get(object, accessor) ==
    IF WireField(accessor) \in DOMAIN object._data
    THEN {object._data[WireField(accessor)]}
    ELSE {}

\* Faulty variant: only the members every thread, message or run must
\* have are copied.
toDictRequiredOnly(object) ==
    [k \in DOMAIN object._data \ {"user_id", "tenant"} |-> object._data[k]]

\* `return { ...this._data }`: a new mapping with every member of _data.
toDict(object) == [k \in DOMAIN object._data |-> object._data[k]]

\* Objects live in a heap, a sequence of mappings; a reference is an index
\* into it.  The object a reference-holding value object stands for:
Deref(heap, object) == [object EXCEPT !._data = heap[@]]

\* Faulty variant: `return this._data`, the object's own mapping.
toDictCallAliased(heap, object) == [heap |-> heap, ref |-> object._data]

\* A call of toDict() on an object whose _data is a reference: the spread
\* allocates a new mapping, and the reference to it is returned.
toDictCall(heap, object) ==
    [heap |-> Append(heap, toDict(Deref(heap, object))), ref |-> Len(heap) + 1]

\* What a caller does to a mapping it holds: assign to a key, add a key,
\* delete a key.
Writes == {"assign", "add", "delete"}

Write(m, w) ==
    CASE w = "assign" -> [k \in DOMAIN m |-> IF k = "thread_id" THEN "changed" ELSE m[k]]
      [] w = "add" -> [k \in DOMAIN m \cup {"note"} |-> IF k = "note" THEN "added" ELSE m[k]]
      [] w = "delete" -> [k \in DOMAIN m \ {"created_at"} |-> m[k]]

----------------------------------------------------------------------------
(* State.                                                                  *)

VARIABLES
    construction,   \* the constructor call: its options, whether it ran, its error
    client,         \* the SubtextClient: its fields and its interceptor lists
    pc,             \* per call: "idle", "inflight", "backoff" or "done"
    invocation,     \* per call: the operation invoked and its options
    config,         \* per call: the axios request config, with __retryCount
    chain,          \* per call: response interceptors of the attempt in flight
    networkCalls,   \* per call: attempts handed to the network so far
    received,       \* per call: the statuses its attempts have ended with
    response,       \* per call: the outcome of the latest attempt
    delays,         \* per call: the backoff delays waited, in order
    result,         \* per call: {} while pending, else the settled promise
    value,          \* a value object under construction and conversion
    wire            \* per call: the requests it has issued and those unanswered

vars == <<construction, client, pc, invocation, config, chain, networkCalls, received,
          response, delays, result, value, wire>>

NoInvocation == [op |-> "none", options |-> <<>>]

NoOutcome == [code |-> Absent, response |-> {}]

\* The constructor call with `options`: not yet run, returned, or thrown.
Pending(options) == [options |-> options, state |-> "pending", error |-> {}]

Returned(options) == [options |-> options, state |-> "returned", error |-> {}]

Thrown(options, error) == [options |-> options, state |-> "thrown", error |-> error]

NoCalls ==
    /\ pc = [c \in Calls |-> "idle"]
    /\ invocation = [c \in Calls |-> NoInvocation]
    /\ config = [c \in Calls |-> NoConfig]
    /\ chain = [c \in Calls |-> {}]
    /\ networkCalls = [c \in Calls |-> 0]
    /\ received = [c \in Calls |-> {}]
    /\ response = [c \in Calls |-> NoOutcome]
    /\ delays = [c \in Calls |-> <<>>]
    /\ result = [c \in Calls |-> {}]
    /\ wire = [c \in Calls |-> NoWire]

\* No value object is being followed.
NoValue ==
    [stage |-> "none", op |-> "none", payload |-> <<>>, object |-> {}, dict |-> {},
     reads |-> {}]

Init ==
    /\ \E o \in OptionSets :
            /\ construction = Returned(o)
            /\ client = Construct(o)
    /\ NoCalls
    /\ value = NoValue

----------------------------------------------------------------------------
(* Operations.                                                             *)

\* thread(options) / message(options) / run(options) up to its first
\* suspension: local validation, then makeRequest hands the request to
\* axios, which captures the interceptors registered at that moment.
Invoke(c, op, options) ==
    /\ construction.state = "returned"
    /\ pc[c] = "idle"
    /\ invocation' = [invocation EXCEPT ![c] = [op |-> op, options |-> options]]
    /\ IF Validate(op, options) # {}
       THEN /\ pc' = [pc EXCEPT ![c] = "done"]
            /\ result' = [result EXCEPT ![c] =
                    {Rejected(PlainError("Error", CHOOSE m \in Validate(op, options) : TRUE))}]
            /\ UNCHANGED <<config, chain, networkCalls, wire>>
       ELSE /\ pc' = [pc EXCEPT ![c] = "inflight"]
            /\ config' = [config EXCEPT ![c] = RequestConfig(op, options)]
            /\ chain' = [chain EXCEPT ![c] = InterceptorsAtSend(client)]
            /\ networkCalls' = [networkCalls EXCEPT ![c] = 1]
            /\ wire' = [wire EXCEPT ![c] = Issue(@, client, config'[c])]
            /\ UNCHANGED result
    /\ UNCHANGED <<construction, client, received, response, delays, value>>

\* The attempt in flight ends with outcome `out`.  A 2xx response passes
\* the interceptor unchanged, makeRequest returns its body and the
\* operation unwraps it.  A failure runs the interceptor's rejection
\* handler when it is on the attempt's chain: it rejects at once when the
\* budget is spent, else counts the failure and either starts the backoff
\* timer (retried statuses) or rejects.  Every rejection reaches
\* makeRequest's catch, where handleError throws the exception the
\* operation's promise rejects with.
Respond(c, out) ==
    /\ pc[c] = "inflight"
    /\ received' = [received EXCEPT ![c] = @ \cup {StatusOf(out)}]
    /\ response' = [response EXCEPT ![c] = out]
    /\ wire' = [wire EXCEPT ![c] = Answer(@)]
    /\ IF IsSuccess(out)
       THEN /\ pc' = [pc EXCEPT ![c] = "done"]
            /\ result' = [result EXCEPT ![c] =
                    {Unwrap(invocation[c].op, (CHOOSE r \in out.response : TRUE).data)}]
            /\ UNCHANGED <<config, delays>>
       ELSE IF "retry" \in chain[c] /\ ~Exhausted(config[c], client.maxRetries)
       THEN /\ config' = CountFailure(config, c)
            /\ IF ShouldRetry(out)
               THEN /\ pc' = [pc EXCEPT ![c] = "backoff"]
                    /\ delays' = [delays EXCEPT ![c] = Append(@, BackoffDelay(config'[c]))]
                    /\ UNCHANGED result
               ELSE /\ pc' = [pc EXCEPT ![c] = "done"]
                    /\ result' = [result EXCEPT ![c] =
                            {Rejected(handleError(out, config[c].url))}]
                    /\ UNCHANGED delays
       ELSE /\ pc' = [pc EXCEPT ![c] = "done"]
            /\ result' = [result EXCEPT ![c] =
                    {Rejected(handleError(out, config[c].url))}]
            /\ UNCHANGED <<config, delays>>
    /\ UNCHANGED <<construction, client, invocation, chain, networkCalls, value>>

\* The backoff timer fires: `this.httpClient(config)` resubmits the
\* request, with the interceptors registered at that moment.
TimerFires(c) ==
    /\ pc[c] = "backoff"
    /\ pc' = [pc EXCEPT ![c] = "inflight"]
    /\ chain' = [chain EXCEPT ![c] = InterceptorsAtSend(client)]
    /\ networkCalls' = [networkCalls EXCEPT ![c] = @ + 1]
    /\ wire' = [wire EXCEPT ![c] = Issue(@, client, config[c])]
    /\ UNCHANGED <<construction, client, invocation, config, received, response, delays,
                   result, value>>

\* The caller takes the settled promise; the slot is free for a new call,
\* which starts from a fresh request config.
Settle(c) ==
    /\ pc[c] = "done"
    /\ pc' = [pc EXCEPT ![c] = "idle"]
    /\ invocation' = [invocation EXCEPT ![c] = NoInvocation]
    /\ config' = [config EXCEPT ![c] = NoConfig]
    /\ chain' = [chain EXCEPT ![c] = {}]
    /\ networkCalls' = [networkCalls EXCEPT ![c] = 0]
    /\ received' = [received EXCEPT ![c] = {}]
    /\ response' = [response EXCEPT ![c] = NoOutcome]
    /\ delays' = [delays EXCEPT ![c] = <<>>]
    /\ result' = [result EXCEPT ![c] = {}]
    /\ wire' = [wire EXCEPT ![c] = NoWire]
    /\ UNCHANGED <<construction, client, value>>

\* close(): both interceptor lists are cleared.
Close ==
    /\ construction.state = "returned"
    /\ client' = ClientAfterClose(client)
    /\ UNCHANGED <<construction, pc, invocation, config, chain, networkCalls, received,
                   response, delays, result, value, wire>>

----------------------------------------------------------------------------
(* A caller that awaits each call before it starts the next one.           *)

NoneActive == \A c \in Calls : pc[c] = "idle"

AwaitedInvoke ==
    \E c \in Calls, op \in Operations :
        \E options \in OptionsOf(op) : NoneActive /\ Invoke(c, op, options)

NetworkResponds == \E c \in Calls, out \in Outcomes : Respond(c, out)

BackoffElapses == \E c \in Calls : TimerFires(c)

PromiseSettles == \E c \in Calls : Settle(c)

Next ==
    \/ AwaitedInvoke
    \/ NetworkResponds
    \/ BackoffElapses
    \/ PromiseSettles
    \/ Close

Spec == Init /\ [][Next]_vars

----------------------------------------------------------------------------
(* Construction from any options, followed by a first use of the client.   *)

InitConstruct ==
    /\ \E o \in AllOptionSets : construction = Pending(o)
    /\ client = NoClient
    /\ NoCalls
    /\ value = NoValue

\* new SubtextClient(options): throws before anything is built when the
\* apiKey check fails, else returns the configured client.
New ==
    /\ construction.state = "pending"
    /\ LET error == ConstructorError(construction.options)
       IN  IF error # {}
           THEN /\ construction' = Thrown(construction.options, error)
                /\ client' = NoClient
           ELSE /\ construction' = Returned(construction.options)
                /\ client' = Construct(construction.options)
    /\ UNCHANGED <<pc, invocation, config, chain, networkCalls, received, response,
                   delays, result, value, wire>>

\* What the network answers during the first use: a success and a
\* retried failure.
FirstUseOutcomes ==
    {HttpOutcome(200, ObjectBody("d1", Absent)), HttpOutcome(503, EmptyBody)}

FirstInvoke == \E options \in OptionsOf("thread") : Invoke(1, "thread", options)

FirstResponds == \E out \in FirstUseOutcomes : Respond(1, out)

FirstBackoffElapses == TimerFires(1)

FirstSettles == Settle(1)

\* new SubtextClient({...options, baseUrl: <base URL of the client just
\* made>}): the constructor is given a base URL it has normalised itself.
Rebuild ==
    /\ construction.state = "returned"
    /\ \A c \in Calls : pc[c] = "idle"
    /\ construction.options.baseUrl # {client.baseUrl}
    /\ construction' = Pending([construction.options EXCEPT !.baseUrl = {client.baseUrl}])
    /\ client' = NoClient
    /\ UNCHANGED <<pc, invocation, config, chain, networkCalls, received, response,
                   delays, result, value, wire>>

NextConstruct ==
    \/ New
    \/ Rebuild
    \/ FirstInvoke
    \/ FirstResponds
    \/ FirstBackoffElapses
    \/ FirstSettles

SpecConstruct == InitConstruct /\ [][NextConstruct]_vars

----------------------------------------------------------------------------
(* A caller that starts calls without awaiting the earlier ones.           *)

InitConcurrent == Init

\* What the network answers to concurrent calls: a success, two statuses
\* that are not retried, two that are, and a timeout.
ConcurrentOutcomes ==
    {HttpOutcome(200, ObjectBody("d1", Absent)), HttpOutcome(404, EmptyBody),
     HttpOutcome(429, EmptyBody), HttpOutcome(503, EmptyBody),
     HttpOutcome(401, ObjectBody(Absent, "e1")), NetworkOutcome("ETIMEDOUT")}

ConcurrentInvoke ==
    \E c \in Calls : Invoke(c, "thread", [threadId |-> "t1", userId |-> {}])

ConcurrentResponds == \E c \in Calls, out \in ConcurrentOutcomes : Respond(c, out)

ConcurrentBackoffElapses == \E c \in Calls : TimerFires(c)

ConcurrentSettles == \E c \in Calls : Settle(c)

NextConcurrent ==
    \/ ConcurrentInvoke
    \/ ConcurrentResponds
    \/ ConcurrentBackoffElapses
    \/ ConcurrentSettles

SpecConcurrent == InitConcurrent /\ [][NextConcurrent]_vars

----------------------------------------------------------------------------
(* A value object made from a payload, read and converted back.            *)

InitValues ==
    /\ \E o \in OptionSets :
            /\ o.maxRetries = {}
            /\ construction = Returned(o)
            /\ client = Construct(o)
    /\ NoCalls
    /\ \E op \in Operations :
            \E p \in WirePayloads(op) :
                value = [stage |-> "payload", op |-> op, payload |-> p, object |-> {},
                         dict |-> {}, reads |-> {}]

\* new Thread(p) / new Message(p) / new Run(p)
NewValue ==
    /\ value.stage = "payload"
    /\ value' = [value EXCEPT !.stage = "object",
                              !.object = {ValueObject(value.op, value.payload)}]
    /\ UNCHANGED <<construction, client, pc, invocation, config, chain, networkCalls,
                   received, response, delays, result, wire>>

\* Every getter of the object is read.
ReadAccessors ==
    /\ value.stage = "object"
    /\ value.reads = {}
    /\ \E object \in value.object :
            value' = [value EXCEPT !.reads =
                        {[a \in Accessors(object.type) |-> Get(object, a)]}]
    /\ UNCHANGED <<construction, client, pc, invocation, config, chain, networkCalls,
                   received, response, delays, result, wire>>

\* object.toDict()
ToDict ==
    /\ value.stage = "object"
    /\ value.dict = {}
    /\ \E object \in value.object :
            value' = [value EXCEPT !.dict = {toDict(object)}]
    /\ UNCHANGED <<construction, client, pc, invocation, config, chain, networkCalls,
                   received, response, delays, result, wire>>

NextValues ==
    \/ NewValue
    \/ ReadAccessors
    \/ ToDict

SpecValues == InitValues /\ [][NextValues]_vars

----------------------------------------------------------------------------
(* Awaited calls on a network that answers every attempt and with timers   *)
(* that fire.                                                              *)

\* What the network answers: a success, every retried status, a status
\* that is not retried, a timeout and a refused connection.
LiveOutcomes ==
    {HttpOutcome(200, ObjectBody("d1", Absent)), HttpOutcome(404, EmptyBody)}
        \cup {HttpOutcome(s, EmptyBody) : s \in retryStatusCodes}
        \cup {NetworkOutcome("ETIMEDOUT"), NetworkOutcome("ECONNREFUSED")}

LiveInvoke ==
    \E c \in Calls, op \in Operations :
        \E options \in OptionsOf(op) : NoneActive /\ Invoke(c, op, options)

LiveResponds(c) == \E out \in LiveOutcomes : Respond(c, out)

\* The timer fires, for a call that has not reached MaxAttempts attempts.
LiveTimerFires(c) == networkCalls[c] < MaxAttempts /\ TimerFires(c)

NextLive ==
    \/ LiveInvoke
    \/ \E c \in Calls : LiveResponds(c)
    \/ \E c \in Calls : LiveTimerFires(c)
    \/ \E c \in Calls : Settle(c)
    \/ Close

\* Every attempt is answered and every backoff timer fires.
Fairness ==
    \A c \in Calls : WF_vars(LiveResponds(c)) /\ WF_vars(LiveTimerFires(c))

SpecLive == Init /\ [][NextLive]_vars /\ Fairness

----------------------------------------------------------------------------
(* A value object whose returned mappings the caller modifies, beside a    *)
(* client in use.                                                          *)

InitShared ==
    /\ \E o \in OptionSets :
            /\ o.maxRetries = {1}
            /\ construction = Returned(o)
            /\ client = Construct(o)
    /\ NoCalls
    /\ \E op \in Operations :
            \E p \in WirePayloads(op) :
                value = [stage |-> "heap", op |-> op, payload |-> p, heap |-> <<p>>,
                         object |-> {}, returned |-> <<>>, dict |-> {}, reads |-> {}]

\* new Thread(data) / new Message(data) / new Run(data): `this._data = data`
\* keeps the reference to the payload, which is the first object of the heap.
SharedNew ==
    /\ value.stage = "heap"
    /\ value.object = {}
    /\ value' = [value EXCEPT !.object = {ValueObject(value.op, 1)}]
    /\ UNCHANGED <<construction, client, pc, invocation, config, chain, networkCalls,
                   received, response, delays, result, wire>>

\* object.toDict(): the reference returned and what it held when returned.
SharedToDict ==
    /\ value.stage = "heap"
    /\ Len(value.returned) < MaxDicts
    /\ \E object \in value.object :
            LET call == toDictCall(value.heap, object)
            IN  value' = [value EXCEPT !.heap = call.heap,
                                       !.returned = Append(@, call.ref),
                                       !.dict = @ \cup {call.heap[call.ref]}]
    /\ UNCHANGED <<construction, client, pc, invocation, config, chain, networkCalls,
                   received, response, delays, result, wire>>

\* The caller modifies a mapping toDict() has returned.
SharedWrite ==
    /\ value.stage = "heap"
    /\ \E i \in 1..Len(value.returned), w \in Writes :
            value' = [value EXCEPT !.heap[value.returned[i]] = Write(@, w)]
    /\ UNCHANGED <<construction, client, pc, invocation, config, chain, networkCalls,
                   received, response, delays, result, wire>>

\* Every getter of the object is read.
SharedRead ==
    /\ value.stage = "heap"
    /\ \E object \in value.object :
            value' = [value EXCEPT !.reads = @ \cup
                        {[a \in Accessors(object.type) |->
                            Get(Deref(value.heap, object), a)]}]
    /\ UNCHANGED <<construction, client, pc, invocation, config, chain, networkCalls,
                   received, response, delays, result, wire>>

NextShared ==
    \/ SharedNew
    \/ SharedToDict
    \/ SharedWrite
    \/ SharedRead
    \/ FirstInvoke
    \/ FirstResponds
    \/ FirstBackoffElapses
    \/ FirstSettles

SpecShared == InitShared /\ [][NextShared]_vars

----------------------------------------------------------------------------
(* Vocabulary of the properties below.                                     *)

\* The statuses the specification calls transient.
TransientStatuses == {429, 500, 502, 503, 504}

\* Call c has made at least one attempt and its latest attempt has ended.
Answered(c) == received[c] # {}

LastStatus(c) == StatusOf(response[c])

LastBody(c) == (CHOOSE r \in response[c].response : TRUE).data

\* The retry interceptor was registered when the latest attempt of call c
\* was sent: close() had not been invoked before that moment.
Intercepted(c) == "retry" \in chain[c]

\* Call c has failed with exception class `name` carrying `statusCode`.
FailedWith(c, name, statusCode) ==
    \A r \in result[c] :
        /\ r.state = "rejected"
        /\ \A e \in r.error : e.name = name /\ e.statusCode = statusCode

\* This step ends an attempt of call c in a failure.
AttemptFails(c) ==
    /\ pc[c] = "inflight"
    /\ pc'[c] # "inflight"
    /\ ~IsSuccess(response'[c])

----------------------------------------------------------------------------
\* C1 (as stated): a call makes at most maxRetries + 1 attempts, its retry
\* counter stays within 0..maxRetries, and every failed attempt that the
\* retry interceptor handles grows the counter by exactly 1.
C1_CounterGrowsOnEveryFailure ==
    /\ [](\A c \in Calls :
            /\ networkCalls[c] <= client.maxRetries + 1
            /\ RetryCountOf(config[c]) \in 0..client.maxRetries)
    /\ [][\A c \in Calls :
            (AttemptFails(c) /\ Intercepted(c)) =>
                RetryCountOf(config'[c]) = RetryCountOf(config[c]) + 1]_vars

\* C1 (amended): a call makes at most maxRetries + 1 attempts and its retry
\* counter stays within 0..maxRetries; a failed attempt handled by the
\* retry interceptor grows the counter by exactly 1 while it is below
\* maxRetries, and every other failed attempt (counter already at
\* maxRetries, or interceptor cleared before the attempt was sent) leaves
\* it unchanged.
C1_AttemptsBounded ==
    /\ [](\A c \in Calls :
            /\ networkCalls[c] <= client.maxRetries + 1
            /\ RetryCountOf(config[c]) \in 0..client.maxRetries)
    /\ [][\A c \in Calls :
            AttemptFails(c) =>
                IF Intercepted(c) /\ RetryCountOf(config[c]) < client.maxRetries
                THEN RetryCountOf(config'[c]) = RetryCountOf(config[c]) + 1
                ELSE config'[c] = config[c]]_vars

\* A call that used its whole budget: maxRetries + 1 attempts, all failed,
\* the counter at maxRetries.
C1_Witness ==
    \E c \in Calls :
        /\ pc[c] = "done"
        /\ networkCalls[c] = client.maxRetries + 1
        /\ RetryCountOf(config[c]) = client.maxRetries
        /\ Intercepted(c)
        /\ ~IsSuccess(response[c])

\* C2: a further attempt of a call is sent only after a response with a
\* transient status; a call stays active after an answer only if that
\* answer was transient, so any other failure ends it even with budget
\* left; a call that only ever received 401 made exactly one attempt.
C2_RetryOnlyOnTransientStatus ==
    /\ [](\A c \in Calls :
            /\ (pc[c] \in {"inflight", "backoff"} /\ Answered(c)) =>
                    LastStatus(c) \in TransientStatuses
            /\ (pc[c] = "done" /\ received[c] = {401}) => networkCalls[c] = 1)
    /\ [][\A c \in Calls :
            /\ (networkCalls[c] >= 1 /\ networkCalls'[c] > networkCalls[c]) =>
                    /\ networkCalls'[c] = networkCalls[c] + 1
                    /\ LastStatus(c) \in TransientStatuses
            /\ (AttemptFails(c) /\ LastStatus(c)' \notin TransientStatuses) =>
                    pc'[c] = "done" /\ networkCalls'[c] = networkCalls[c]]_vars

\* A first response of 401 on a live client with budget left: one attempt.
C2_Witness ==
    \E c \in Calls :
        /\ pc[c] = "done"
        /\ received[c] = {401}
        /\ networkCalls[c] = 1
        /\ Intercepted(c)
        /\ RetryCountOf(config[c]) < client.maxRetries
        /\ FailedWith(c, "SubtextAuthenticationError", {401})
        /\ result[c] # {}

\* C3: a call whose latest attempt returned 2xx with a body containing
\* `data` has succeeded with exactly one value object built from that
\* `data`; and a live call never ends on a transient status while fewer
\* than maxRetries + 1 attempts were made, so k <= maxRetries transient
\* answers are always followed by attempt k + 1.
C3_SuccessAfterTransientFailures ==
    \A c \in Calls :
        /\ (/\ pc[c] = "done"
            /\ IsSuccess(response[c])
            /\ LastBody(c).kind = "object"
            /\ LastBody(c).data # Absent) =>
                /\ received[c] \ {LastStatus(c)} \subseteq TransientStatuses
                /\ networkCalls[c] <= client.maxRetries + 1
                /\ result[c] =
                     {[state |-> "fulfilled",
                       value |-> {[type |-> ValueType(invocation[c].op),
                                   _data |-> LastBody(c).data]},
                       error |-> {}]}
        /\ (/\ pc[c] = "done"
            /\ Answered(c)
            /\ Intercepted(c)
            /\ networkCalls[c] <= client.maxRetries) =>
                LastStatus(c) \notin TransientStatuses

\* maxRetries = 3: three 503 answers, then 200 with data, fulfilled.
C3_Witness ==
    \E c \in Calls :
        /\ pc[c] = "done"
        /\ client.maxRetries = 3
        /\ networkCalls[c] = 4
        /\ received[c] = {503, 200}
        /\ LastStatus(c) = 200
        /\ \E r \in result[c] :
                r.state = "fulfilled" /\ \E v \in r.value : v._data = "d2"

\* C4: a call on a live client all of whose attempts returned a status in
\* {500, 502, 503, 504} made exactly maxRetries + 1 attempts and failed
\* with SubtextServerError carrying the status and the payload of the
\* latest response.
C4_ExhaustedServerError ==
    \A c \in Calls :
        (/\ pc[c] = "done"
         /\ Answered(c)
         /\ Intercepted(c)
         /\ received[c] \subseteq {500, 502, 503, 504}) =>
            /\ networkCalls[c] = client.maxRetries + 1
            /\ result[c] # {}
            /\ FailedWith(c, "SubtextServerError", {LastStatus(c)})
            /\ \A r \in result[c] : \A e \in r.error :
                    e.responseData =
                        {IF LastBody(c).kind = "object" THEN LastBody(c)
                         ELSE [kind |-> "object", data |-> Absent, error |-> Absent]}

\* Exhaustion whose latest answer (504 with an error body) differs from an
\* earlier one (500).
C4_Witness ==
    \E c \in Calls :
        /\ pc[c] = "done"
        /\ Intercepted(c)
        /\ received[c] = {500, 504}
        /\ LastStatus(c) = 504
        /\ LastBody(c).error = "e1"
        /\ networkCalls[c] = client.maxRetries + 1
        /\ FailedWith(c, "SubtextServerError", {504})
        /\ result[c] # {}

\* C5: the n-th backoff delay of a call is exactly 2^n * 1000 ms, starting
\* at 2000 ms, and one delay is waited per retry.
C5_BackoffDelays ==
    \A c \in Calls :
        /\ \A n \in 1..Len(delays[c]) : delays[c][n] = (2 ^ n) * 1000
        /\ Len(delays[c]) >= 1 => delays[c][1] = 2000
        /\ Len(delays[c]) = RetryCountOf(config[c]) \/ pc[c] = "done"
        /\ pc[c] \in {"inflight", "done"} /\ networkCalls[c] >= 1 =>
                Len(delays[c]) = networkCalls[c] - 1
        /\ pc[c] = "backoff" => Len(delays[c]) = networkCalls[c]

\* The default budget: delays of 2000, 4000 and 8000 ms.
C5_Witness ==
    \E c \in Calls :
        /\ client.maxRetries = 3
        /\ delays[c] = <<2000, 4000, 8000>>
        /\ networkCalls[c] = 4

\* C6: a call whose latest attempt received 401 / 400 / 404 has failed with
\* SubtextAuthenticationError / SubtextValidationError /
\* SubtextNotFoundError carrying that status, and no call fails with one
\* of these classes after any other outcome.
C6_StatusKindsOneToOne ==
    \A c \in Calls :
        (pc[c] = "done") =>
            /\ result[c] # {}
            /\ (Answered(c) /\ LastStatus(c) = 401) =>
                    FailedWith(c, "SubtextAuthenticationError", {401})
            /\ (Answered(c) /\ LastStatus(c) = 400) =>
                    FailedWith(c, "SubtextValidationError", {400})
            /\ (Answered(c) /\ LastStatus(c) = 404) =>
                    FailedWith(c, "SubtextNotFoundError", {404})
            /\ \A r \in result[c] : \A e \in r.error :
                    /\ e.name = "SubtextAuthenticationError" =>
                            Answered(c) /\ LastStatus(c) = 401 /\ e.statusCode = {401}
                    /\ e.name = "SubtextValidationError" =>
                            Answered(c) /\ LastStatus(c) = 400 /\ e.statusCode = {400}
                    /\ e.name = "SubtextNotFoundError" =>
                            Answered(c) /\ LastStatus(c) = 404 /\ e.statusCode = {404}

\* A 401 that ends a call after a retried 503.
C6_Witness ==
    \E c \in Calls :
        /\ pc[c] = "done"
        /\ received[c] = {503, 401}
        /\ LastStatus(c) = 401
        /\ networkCalls[c] = 2
        /\ result[c] # {}
        /\ FailedWith(c, "SubtextAuthenticationError", {401})

\* C7: a call whose latest attempt received any 5xx status has failed with
\* SubtextServerError carrying that status.
C7_Every5xxIsServerError ==
    \A c \in Calls :
        (/\ pc[c] = "done"
         /\ Answered(c)
         /\ LastStatus(c) >= 500
         /\ LastStatus(c) <= 599) =>
            /\ result[c] # {}
            /\ FailedWith(c, "SubtextServerError", {LastStatus(c)})

\* C8: a call whose latest attempt ended without a response has failed with
\* SubtextTimeoutError when the error code is ECONNABORTED or ETIMEDOUT and
\* with SubtextConnectionError for every other code; either carries no
\* status code and no payload.
C8_NoResponseKinds ==
    \A c \in Calls :
        (/\ pc[c] = "done"
         /\ Answered(c)
         /\ response[c].response = {}) =>
            /\ result[c] # {}
            /\ FailedWith(c,
                    IF response[c].code \in {"ECONNABORTED", "ETIMEDOUT"}
                    THEN "SubtextTimeoutError" ELSE "SubtextConnectionError",
                    {})
            /\ \A r \in result[c] : \A e \in r.error : e.responseData = {}

\* A timeout reported with code ETIMEDOUT on the attempt after a retried
\* 503, and a generic network error.
C8_Witness ==
    \E c \in Calls :
        /\ pc[c] = "done"
        /\ result[c] # {}
        /\ \/ /\ response[c].code = "ETIMEDOUT"
              /\ received[c] = {503, 0}
              /\ FailedWith(c, "SubtextTimeoutError", {})
           \/ /\ response[c].code = "ERR_NETWORK"
              /\ received[c] = {0}
              /\ FailedWith(c, "SubtextConnectionError", {})

\* C9: a call whose latest attempt received a failure status outside 400,
\* 401, 404 and 5xx has failed with the base SubtextAPIError carrying that
\* status; a call on a live client that received 429 on every attempt made
\* maxRetries + 1 attempts before failing so.
C9_GenericKind ==
    \A c \in Calls :
        /\ (/\ pc[c] = "done"
            /\ Answered(c)
            /\ response[c].response # {}
            /\ ~(LastStatus(c) >= 200 /\ LastStatus(c) <= 299)
            /\ LastStatus(c) \notin {400, 401, 404}
            /\ ~(LastStatus(c) >= 500 /\ LastStatus(c) <= 599)) =>
                /\ result[c] # {}
                /\ FailedWith(c, "SubtextAPIError", {LastStatus(c)})
        /\ (/\ pc[c] = "done"
            /\ Intercepted(c)
            /\ received[c] = {429}) =>
                /\ networkCalls[c] = client.maxRetries + 1
                /\ FailedWith(c, "SubtextAPIError", {429})

\* 429 on each of the four attempts of the default budget.
C9_Witness ==
    \E c \in Calls :
        /\ pc[c] = "done"
        /\ client.maxRetries = 3
        /\ received[c] = {429}
        /\ networkCalls[c] = 4
        /\ result[c] # {}
        /\ FailedWith(c, "SubtextAPIError", {429})

\* C10: a call that passed local validation and has ended either returned
\* a value object or failed with exactly one SubtextAPIError (sub)class.
C10_ValueOrTaxonomyError ==
    \A c \in Calls :
        (pc[c] = "done" /\ networkCalls[c] >= 1) =>
            /\ Cardinality(result[c]) = 1
            /\ \A r \in result[c] :
                \/ /\ r.state = "fulfilled"
                   /\ r.error = {}
                   /\ \E v \in r.value : v.type \in {"Thread", "Message", "Run"}
                \/ /\ r.state = "rejected"
                   /\ r.value = {}
                   /\ Cardinality(r.error) = 1
                   /\ \A e \in r.error : e.taxonomy

\* The options each operation requires.
RequiredOptions(op) ==
    CASE op = "thread" -> {"threadId"}
      [] op = "message" -> {"threadId", "message", "messageId"}
      [] op = "run" -> {"threadId", "runId", "response"}
      [] OTHER -> {}

\* Call c was invoked with an empty string for a required option.
EmptyRequired(c) ==
    \E f \in RequiredOptions(invocation[c].op) : invocation[c].options[f] = ""

C12_EmptyFieldIsValidationError ==
    \A c \in Calls :
        (EmptyRequired(c) /\ pc[c] = "done") =>
            /\ result[c] # {}
            /\ \A r \in result[c] :
                /\ r.state = "rejected"
                /\ \A e \in r.error : e.name = "SubtextValidationError"

\* C13: once the constructor has run on options whose apiKey is missing or
\* empty, it has thrown the plain error 'API key is required', which is
\* not of the error taxonomy; no client and no transport exist and no
\* attempt has reached the network.
C13_NoApiKeyFailsConstruction ==
    (construction.options.apiKey \in {{}, {""}} /\ construction.state # "pending")
        => /\ construction.state = "thrown"
           /\ construction.error # {}
           /\ \A e \in construction.error :
                    /\ e.name = "Error"
                    /\ e.message = "API key is required"
                    /\ ~e.taxonomy
           /\ client.httpClient = {}
           /\ \A c \in Calls : networkCalls[c] = 0 /\ pc[c] = "idle"

\* The constructor has thrown on an empty apiKey.
C13_Witness ==
    /\ construction.options.apiKey = {""}
    /\ construction.state = "thrown"

\* Call c was invoked with every required option non-empty and has not
\* waited for a retry.
NonRetried(c) == pc[c] \in {"inflight", "done"} /\ ~EmptyRequired(c) /\ delays[c] = <<>>

\* C14: a call with valid input that has not been retried has issued
\* exactly one request: a POST to the endpoint of its operation whose body
\* holds the caller's values under the wire keys.
C14_OnePostWithWireKeys ==
    \A c \in Calls :
        NonRetried(c) =>
            LET o == invocation[c].options
                op == invocation[c].op
            IN  /\ networkCalls[c] = 1
                /\ config[c].method = "POST"
                /\ op = "thread" =>
                        /\ config[c].url = "/api/threads"
                        /\ DOMAIN config[c].data = {"thread_id", "user_id"}
                        /\ config[c].data.thread_id = o.threadId
                        /\ config[c].data.user_id = o.userId
                /\ op = "message" =>
                        /\ config[c].url = "/api/messages"
                        /\ DOMAIN config[c].data = {"thread_id", "message", "message_id"}
                        /\ config[c].data.thread_id = o.threadId
                        /\ config[c].data.message = o.message
                        /\ config[c].data.message_id = o.messageId
                /\ op = "run" =>
                        /\ config[c].url = "/api/runs"
                        /\ DOMAIN config[c].data = {"thread_id", "run_id", "response"}
                        /\ config[c].data.thread_id = o.threadId
                        /\ config[c].data.run_id = o.runId
                        /\ config[c].data.response = o.response

\* A message call with valid input has completed on its first attempt.
C14_Witness ==
    \E c \in Calls :
        /\ NonRetried(c)
        /\ pc[c] = "done"
        /\ invocation[c].op = "message"
        /\ \E r \in result[c] : r.state = "fulfilled"

\* The latest attempt of call c got a response whose body is an object or
\* an empty string and carries no `data`.
DataOmitted(c) ==
    /\ pc[c] = "done"
    /\ Answered(c)
    /\ LastStatus(c) # NoResponse
    /\ LastBody(c).kind # "null"
    /\ LastBody(c).data = Absent

\* Call c has failed with a SubtextAPIError of exactly this class, this
\* message and status 200.
MissingDataFailure(c, message) ==
    \A r \in result[c] :
        /\ r.state = "rejected"
        /\ \A e \in r.error :
                e.name = "SubtextAPIError" /\ e.message = message /\ e.statusCode = {200}

\* C15 (as stated): whatever the HTTP status, a response without `data`
\* fails the call with SubtextAPIError "Invalid response format: missing
\* data field", status 200.
C15_MissingDataAnyStatus ==
    \A c \in Calls :
        DataOmitted(c) =>
            MissingDataFailure(c, "Invalid response format: missing data field")

\* C15 (corrected): a 2xx response without `data` fails the call with
\* SubtextAPIError 'Invalid response format: missing "data" field' and
\* status 200, whichever 2xx status it carried; a response of any other
\* status never produces that failure.
C15_MissingDataOn2xx ==
    \A c \in Calls :
        DataOmitted(c) =>
            IF LastStatus(c) \in {200, 201}
            THEN MissingDataFailure(c, "Invalid response format: missing \"data\" field")
            ELSE \A r \in result[c] : \A e \in r.error :
                    e.message # "Invalid response format: missing \"data\" field"

\* A 201 response with an object body without `data` has failed the call.
C15_Witness ==
    \E c \in Calls :
        /\ DataOmitted(c)
        /\ LastStatus(c) = 201
        /\ LastBody(c) = ObjectBody(Absent, Absent)
        /\ \E r \in result[c] : r.state = "rejected"

\* C16: on a client constructed with maxRetries: 0 no call is retried: a
\* call never waits for a backoff nor makes a second attempt, and one
\* whose attempt was answered with a transient status has failed.
C16_ZeroMaxRetriesNeverRetries ==
    construction.options.maxRetries = {0} =>
        \A c \in Calls :
            /\ pc[c] # "backoff"
            /\ networkCalls[c] <= 1
            /\ (Answered(c) /\ LastStatus(c) \in TransientStatuses) =>
                    /\ pc[c] = "done"
                    /\ \A r \in result[c] : r.state = "rejected"

\* C17: a client constructed with only an apiKey has a transport with
\* base URL https://app.trysubtext.com/api, timeout 30000 and the three
\* default headers, and a maximum retry count of 3.
C17_DefaultsOfApiKeyOnlyClient ==
    (/\ construction.state = "returned"
     /\ construction.options =
            [apiKey |-> {"key"}, baseUrl |-> {}, timeout |-> {}, maxRetries |-> {}])
        => /\ client.maxRetries = 3
           /\ client.httpClient # {}
           /\ \A h \in client.httpClient :
                /\ h.baseURL = <<"https:", "/", "/", "app.trysubtext.com", "/", "api">>
                /\ h.timeout = 30000
                /\ DOMAIN h.headers = {"Content-Type", "x-api-key", "User-Agent"}
                /\ h.headers["Content-Type"] = "application/json"
                /\ h.headers["x-api-key"] = "key"
                /\ h.headers["User-Agent"] = "subtext-typescript/0.1.0"

\* Call c, whichever calls run beside it, has waited 2^n * 1000 ms for
\* its n-th retry, n = 1, 2, ..., has made one attempt more than it has
\* waited, never more than maxRetries retries, and when it gave up on a
\* transient status it had used all of them.
OwnRetryBudget(c) ==
    /\ \A n \in 1..Len(delays[c]) : delays[c][n] = (2 ^ n) * 1000
    /\ Len(delays[c]) <= client.maxRetries
    /\ pc[c] \in {"inflight", "done"} => networkCalls[c] = Len(delays[c]) + 1
    /\ pc[c] = "backoff" => networkCalls[c] = Len(delays[c])
    /\ (pc[c] = "done" /\ LastStatus(c) \in TransientStatuses) =>
            networkCalls[c] = client.maxRetries + 1

\* A step in which call c does not move leaves its counter, its attempts
\* and its delays as they were.
OthersUntouched ==
    \A c \in Calls :
        pc'[c] = pc[c] =>
            /\ config'[c] = config[c]
            /\ networkCalls'[c] = networkCalls[c]
            /\ delays'[c] = delays[c]

\* C18: under every interleaving of concurrent calls each call keeps its
\* own retry counter: it gets its full budget of maxRetries retries and
\* its own delay sequence 2000, 4000, ... and no step of one call changes
\* the counter, attempts or delays of another.
C18_PerCallRetryCounter ==
    /\ [](\A c \in Calls : OwnRetryBudget(c))
    /\ [][OthersUntouched]_vars

\* Two calls are waiting for a retry at the same time, one for its second
\* and the other for its first.
C18_Witness ==
    /\ pc[1] = "backoff" /\ Len(delays[1]) = 2
    /\ pc[2] = "backoff" /\ Len(delays[2]) = 1

\* C19: no step of any call and no close() changes the client's apiKey,
\* baseUrl, timeout or maxRetries.
C19_ConfigurationFixed ==
    [][/\ client'.apiKey = client.apiKey
       /\ client'.baseUrl = client.baseUrl
       /\ client'.timeout = client.timeout
       /\ client'.maxRetries = client.maxRetries]_vars

\* After close() a call that was retried has ended, on a client that
\* still has the retry budget it was constructed with.
C19_Witness ==
    /\ client.responseInterceptors = {}
    /\ construction.options.maxRetries = {2}
    /\ client.maxRetries = 2
    /\ client.apiKey = "key"
    /\ \E c \in Calls : pc[c] = "done" /\ Len(delays[c]) = 2

\* The value of wire key k in payload p, {} when p has no such key.
PayloadMember(p, k) == IF k \in DOMAIN p THEN {p[k]} ELSE {}

\* C20: toDict() of a Thread, Message or Run made from payload p is a
\* mapping with exactly the keys and values of p, and each getter returns
\* the value of its wire field of p.
C20_ToDictRoundTripAndAccessors ==
    LET p == value.payload
    IN  /\ \A d \in value.dict :
                /\ DOMAIN d = DOMAIN p
                /\ \A k \in DOMAIN p : d[k] = p[k]
        /\ \A r \in value.reads :
                /\ r["threadId"] = PayloadMember(p, "thread_id")
                /\ r["createdAt"] = PayloadMember(p, "created_at")
                /\ value.op = "thread" =>
                        /\ DOMAIN r = {"id", "threadId", "userId", "createdAt", "modifiedAt"}
                        /\ r["id"] = PayloadMember(p, "id")
                        /\ r["userId"] = PayloadMember(p, "user_id")
                        /\ r["modifiedAt"] = PayloadMember(p, "modified_at")
                /\ value.op = "message" =>
                        /\ DOMAIN r = {"id", "threadId", "message", "messageId", "createdAt"}
                        /\ r["id"] = PayloadMember(p, "id")
                        /\ r["message"] = PayloadMember(p, "message")
                        /\ r["messageId"] = PayloadMember(p, "message_id")
                /\ value.op = "run" =>
                        /\ DOMAIN r = {"runId", "threadId", "response", "createdAt"}
                        /\ r["runId"] = PayloadMember(p, "run_id")
                        /\ r["response"] = PayloadMember(p, "response")

\* A Thread made from a payload with a user_id has been read and
\* converted back.
C20_Witness ==
    /\ value.op = "thread"
    /\ value.dict # {}
    /\ \A r \in value.reads : r["userId"] = {"u1"} /\ r["threadId"] = {"t2"}
    /\ value.reads # {}

\* C21: once close() has been invoked, no call that was started before it
\* is waiting for a backoff timer or for the answer to a request.
C21_NothingPendingAfterClose ==
    client.responseInterceptors = {} =>
        \A c \in Calls : Intercepted(c) => pc[c] \notin {"backoff", "inflight"}

\* C22: all attempts of a call, the first and every retry, put one and
\* the same request on the network: a POST to the endpoint of the
\* operation with the body built from the caller's options, carrying the
\* headers x-api-key: <apiKey> and Content-Type: application/json.
C22_EveryAttemptSameRequest ==
    \A c \in Calls :
        networkCalls[c] >= 1 =>
            /\ Cardinality(wire[c].requests) = 1
            /\ \A r \in wire[c].requests :
                    /\ r.method = "POST"
                    /\ invocation[c].op = "thread" => r.url = "/api/threads"
                    /\ invocation[c].op = "message" => r.url = "/api/messages"
                    /\ invocation[c].op = "run" => r.url = "/api/runs"
                    /\ r.data.thread_id = invocation[c].options.threadId
                    /\ invocation[c].op = "thread" =>
                            r.data.user_id = invocation[c].options.userId
                    /\ invocation[c].op = "message" =>
                            /\ r.data.message = invocation[c].options.message
                            /\ r.data.message_id = invocation[c].options.messageId
                    /\ invocation[c].op = "run" =>
                            /\ r.data.run_id = invocation[c].options.runId
                            /\ r.data.response = invocation[c].options.response
                    /\ {"x-api-key", "Content-Type"} \subseteq DOMAIN r.headers
                    /\ r.headers["x-api-key"] = client.apiKey
                    /\ r.headers["Content-Type"] = "application/json"

\* A run call has made three attempts.
C22_Witness ==
    \E c \in Calls :
        /\ invocation[c].op = "run"
        /\ networkCalls[c] = 3
        /\ pc[c] = "inflight"
        /\ wire[c].requests # {}

\* close() has been invoked on the client.
Closed == client.requestInterceptors = {} /\ client.responseInterceptors = {}

\* C23: a step that changes the client leaves both interceptor lists
\* empty and every other member of the client, the transport instance
\* included, and every call as they were; once both lists are empty no
\* step changes the client any more.
C23_CloseClearsInterceptorsOnly ==
    [][/\ client' # client =>
            /\ client'.requestInterceptors = {}
            /\ client'.responseInterceptors = {}
            /\ client'.apiKey = client.apiKey
            /\ client'.baseUrl = client.baseUrl
            /\ client'.timeout = client.timeout
            /\ client'.maxRetries = client.maxRetries
            /\ client'.httpClient = client.httpClient
            /\ UNCHANGED <<construction, pc, invocation, config, chain, networkCalls,
                           received, response, delays, result, value, wire>>
       /\ Closed => client' = client]_vars

\* close() has been invoked while a call was waiting for an answer; the
\* transport is still there.
C23_Witness ==
    /\ Closed
    /\ client.httpClient # {}
    /\ \E c \in Calls : pc[c] = "inflight" /\ Intercepted(c)

\* C24: a client constructed with a non-empty baseUrl u uses u without
\* its last piece when that piece is "/", and u itself otherwise, as its
\* base URL and as the base URL of its transport; so a base URL the
\* constructor has produced, when it does not end in "/", is kept as it is.
C24_CustomBaseUrlNormalised ==
    (construction.state = "returned" /\ construction.options.baseUrl \notin {{}, {<<>>}}) =>
        \A u \in construction.options.baseUrl :
            LET expected == IF u[Len(u)] = "/" THEN SubSeq(u, 1, Len(u) - 1) ELSE u
            IN  /\ client.baseUrl = expected
                /\ \A h \in client.httpClient : h.baseURL = expected
                /\ client.httpClient # {}

\* 'https://custom.api.com//' has become 'https://custom.api.com/'.
C24_Witness ==
    /\ construction.state = "returned"
    /\ construction.options.baseUrl = {<<"https:", "/", "/", "custom.api.com", "/", "/">>}
    /\ \A h \in client.httpClient :
            h.baseURL = <<"https:", "/", "/", "custom.api.com", "/">>

\* C25: when every attempt is answered and every backoff timer fires, a
\* call that is waiting for the network or for a timer eventually
\* completes, with a value or a failure.
C25_EveryCallCompletes ==
    \A c \in Calls :
        (pc[c] \in {"inflight", "backoff"}) ~> (pc[c] = "done" /\ result[c] # {})

\* A call has completed after using its whole budget of three retries.
C25_Witness ==
    \E c \in Calls :
        /\ pc[c] = "done"
        /\ networkCalls[c] = 4
        /\ Len(delays[c]) = 3
        /\ result[c] # {}

\* Call c has at most one attempt unanswered, and none while it waits
\* for a timer, after it has completed or before it has started.
OneInFlight(c) ==
    /\ wire[c].outstanding <= 1
    /\ pc[c] # "inflight" => wire[c].outstanding = 0

\* A step that issues an attempt of call c issues one, while none is
\* unanswered: the first when the call starts, a later one from the
\* backoff wait that followed a transient status on the previous one.
IssuedInTurn ==
    \A c \in Calls :
        networkCalls'[c] > networkCalls[c] =>
            /\ networkCalls'[c] = networkCalls[c] + 1
            /\ wire'[c].outstanding = 1
            /\ wire[c].outstanding = 0
            /\ \/ pc[c] = "idle" /\ networkCalls[c] = 0
               \/ /\ pc[c] = "backoff"
                  /\ LastStatus(c) \in TransientStatuses
                  /\ Len(delays[c]) = networkCalls[c]

\* C26: the attempts of one call are strictly sequential: it never has
\* two attempts unanswered, and each attempt after the first is issued
\* from the backoff wait that followed a transient status on the one
\* before; a completed call issues nothing.
C26_AttemptsStrictlySequential ==
    /\ [](\A c \in Calls : OneInFlight(c))
    /\ [][IssuedInTurn]_vars

\* The second attempt of one call is unanswered while another call waits
\* for a timer.
C26_Witness ==
    /\ pc[1] = "inflight" /\ networkCalls[1] = 2 /\ wire[1].outstanding = 1
    /\ pc[2] = "backoff" /\ wire[2].outstanding = 0

\* C27: two calls with the same operation and options whose latest
\* attempts ended with the same outcome have completed with the same
\* result, whatever came before that attempt.
C27_ResultFromLastOutcomeOnly ==
    \A c1, c2 \in Calls :
        (/\ pc[c1] = "done" /\ Answered(c1)
         /\ pc[c2] = "done" /\ Answered(c2)
         /\ invocation[c1] = invocation[c2]
         /\ response[c1] = response[c2])
            => result[c1] = result[c2]

\* One call timed out on its third attempt, another on its first, and a
\* SubtextTimeoutError is the result of both.
C27_Witness ==
    /\ pc[1] = "done" /\ networkCalls[1] = 3
    /\ pc[2] = "done" /\ networkCalls[2] = 1
    /\ response[1] = NetworkOutcome("ETIMEDOUT")
    /\ response[2] = NetworkOutcome("ETIMEDOUT")
    /\ \A r \in result[1] \cup result[2] :
            \A e \in r.error : e.name = "SubtextTimeoutError"
    /\ result[1] # {}

\* C28: an attempt issued after close() is the last one of its call: the
\* call never waits for another retry, and a transient status on that
\* attempt has failed the call with that status.
C28_NoRetryAfterClose ==
    \A c \in Calls :
        wire[c].afterClose =>
            /\ pc[c] \in {"inflight", "done"}
            /\ networkCalls[c] = Len(delays[c]) + 1
            /\ (pc[c] = "done" /\ LastStatus(c) \in TransientStatuses) =>
                    \A r \in result[c] :
                        /\ r.state = "rejected"
                        /\ \A e \in r.error : e.statusCode = {LastStatus(c)}

\* A call that was in its first backoff when close() was invoked has been
\* resubmitted, answered with 503 and failed, two retries short of its
\* budget of three.
C28_Witness ==
    \E c \in Calls :
        /\ wire[c].afterClose
        /\ client.maxRetries = 3
        /\ pc[c] = "done"
        /\ networkCalls[c] = 2
        /\ LastStatus(c) = 503
        /\ FailedWith(c, "SubtextServerError", {503})

\* The message a failure of this status has when the body gives none.
DefaultMessage(status) ==
    CASE status = 400 -> "Validation error"
      [] status = 404 -> "Resource not found"
      [] status \in {500, 502, 503, 504} -> "Internal server error"
      [] OTHER -> "HTTP " \o ToString(status)

\* C29: a call failed by a response of status 401 has the fixed
\* authentication message and no payload, whatever the body; one failed
\* by a response of any other status has the body as payload, an empty
\* mapping for a body that is empty or null, and as message the body's
\* `error` when that is non-empty, else the default of its kind.
C29_MessageAndPayloadOfFailure ==
    \A c \in Calls :
        (/\ pc[c] = "done" /\ Answered(c)
         /\ LastStatus(c) # NoResponse
         /\ LastStatus(c) \notin {200, 201})
            => \A r \in result[c] :
                    /\ r.state = "rejected"
                    /\ \A e \in r.error :
                        IF LastStatus(c) = 401
                        THEN /\ e.message = "Authentication failed. Please check your API key."
                             /\ e.responseData = {}
                        ELSE LET body == LastBody(c)
                                 payload == IF body.kind = "object" THEN body
                                            ELSE [kind |-> "object", data |-> Absent,
                                                  error |-> Absent]
                             IN  /\ e.responseData = {payload}
                                 /\ e.message = IF payload.error \in {Absent, ""}
                                                 THEN DefaultMessage(LastStatus(c))
                                                 ELSE payload.error

\* A 401 whose body carries an error text has failed a call.
C29_Witness ==
    \E c \in Calls :
        /\ pc[c] = "done"
        /\ Answered(c)
        /\ LastStatus(c) = 401
        /\ LastBody(c) = ObjectBody(Absent, "e1")
        /\ FailedWith(c, "SubtextAuthenticationError", {401})
        /\ result[c] # {}

\* C30: whatever the caller writes into the mappings toDict() returned,
\* and whatever the client does meanwhile, the object's own mapping is the
\* payload it was made from, every read of its getters gives the
\* payload's values, every toDict() returned the payload's keys and
\* values, and each returned mapping is a new one, neither the object's
\* own nor one returned before.
C30_ValueObjectNeverMutated ==
    LET p == value.payload
    IN  value.stage = "heap" =>
            \A o \in value.object :
                /\ value.heap[o._data] = p
                /\ \A d \in value.dict :
                        DOMAIN d = DOMAIN p /\ \A k \in DOMAIN p : d[k] = p[k]
                /\ \A r \in value.reads :
                        \A a \in DOMAIN r : r[a] = PayloadMember(p, WireField(a))
                /\ \A i \in 1..Len(value.returned) :
                        /\ value.returned[i] # o._data
                        /\ \A j \in 1..Len(value.returned) :
                                i # j => value.returned[i] # value.returned[j]

\* A second toDict() and a read of the getters have followed a write into
\* the first mapping returned.
C30_Witness ==
    /\ value.stage = "heap"
    /\ Len(value.returned) = 2
    /\ value.heap[value.returned[1]] # value.payload
    /\ value.heap[value.returned[2]] = value.payload
    /\ value.reads # {}

====
